---- MODULE Spec2Model ----
(***************************************************************************)
(* File-contexts labeling backend (libselinux/src/label_file.c).          *)
(*                                                                         *)
(* Strings are sequences of one-character strings.  A pattern is a        *)
(* sequence of tokens: a literal character, "*" standing for the regex    *)
(* ".*", or "(" standing for an unbalanced group that does not compile.    *)
(***************************************************************************)
EXTENDS Integers, Sequences, FiniteSets, TLC

VARIABLES
    pc,          \* position of the caller in the handle's life
    opts,        \* options of init: validating, baseonly
    data,        \* rec->data != NULL
    spec_arr,    \* data->spec_arr[0 .. nspec-1]
    stem_arr,    \* data->stem_arr[0 .. num_stems-1]
    mmap_areas,  \* data->mmap_areas, newest first
    heap,        \* every malloc'ed block: its kind and how often it was freed
    maps,        \* every mmap'ed region: how often it was unmapped
    fs,          \* what process_file sees: the two candidates and the pass
    status,      \* init's status variable
    errno,       \* the thread's errno
    res,         \* what the last operation returned
    other,       \* the second handle of cmp: its spec_arr and stem_arr
    nloads,      \* how many files init has read so far
    nops         \* how many lookup operations the caller has made

vars == <<pc, opts, data, spec_arr, stem_arr, mmap_areas, heap, maps, fs,
          status, errno, res, other, nloads, nops>>

----------------------------------------------------------------------------
(* Bounds of the model *)

MaxSpecs == 2
MaxFileLen == 1
MaxKeyLen == 4
MaxAliases == 2
MaxMtime == 2
MaxLoads == 3
MaxOps == 1

(* Program constants *)

S_IFMT == 61440
S_IFDIR == 16384
S_IFREG == 32768

----------------------------------------------------------------------------
(* Input domains *)

Chars == {"/", "a", "b"}

Patterns ==
    { <<"*">>,
      <<"/", "*">>,
      <<"/", "a", "/", "*">>,
      <<"/", "a", "/", "b">>,
      <<"/", "b">>,
      <<"/", "(">>,
      <<"/", "+">> }

NONE == <<"<", "<", "n", "o", "n", "e", ">", ">">>
CtxX == <<"x">>

Contexts == {CtxX, NONE}

RuleModes == {0, S_IFREG}

Rules == [regex_str : Patterns, mode : RuleModes, ctx : Contexts]

Types == {0, S_IFDIR, S_IFREG + 420}

RECURSIVE SeqsUpTo(_, _)
SeqsUpTo(S, n) ==
    IF n = 0 THEN {<<>>}
    ELSE LET shorter == SeqsUpTo(S, n - 1)
         IN  shorter \cup {Append(s, x) : s \in {t \in shorter : Len(t) = n - 1}, x \in S}

\* a path with every run of slashes written as one slash
RECURSIVE Collapse(_)
Collapse(k) ==
    IF Len(k) <= 1 THEN k
    ELSE IF k[1] = "/" /\ k[2] = "/" THEN Collapse(Tail(k))
    ELSE <<k[1]>> \o Collapse(Tail(k))

\* the absolute paths of at most MaxKeyLen characters, and those with one
\* surplus slash more
Keys ==
    {k \in {<<"/">> \o t : t \in SeqsUpTo(Chars, MaxKeyLen)} :
        Len(Collapse(k)) <= MaxKeyLen}

----------------------------------------------------------------------------
(* Strings *)

Min(a, b) == IF a < b THEN a ELSE b

\* strchr(buf + from - 1, c): the first position >= from holding c, 0 if none
StrChr(buf, from, c) ==
    LET hits == {i \in from..Len(buf) : buf[i] = c}
    IN  IF hits = {} THEN 0 ELSE CHOOSE i \in hits : \A j \in hits : i <= j

\* strstr(key + from - 1, "//"): the first position >= from where "//" starts
StrStrSlashes(key, from) ==
    LET hits == {i \in from..(Len(key) - 1) : key[i] = "/" /\ key[i + 1] = "/"}
    IN  IF hits = {} THEN 0 ELSE CHOOSE i \in hits : \A j \in hits : i <= j

\* CleanLoop searching on two characters after the pair found, not one
RECURSIVE CleanLoopSkipsPair(_, _, _, _)
CleanLoopSkipsPair(key, prev_slash, next_slash, clean_key) ==
    IF next_slash = 0
    THEN clean_key \o SubSeq(key, prev_slash, Len(key))
    ELSE CleanLoopSkipsPair(key, next_slash + 1, StrStrSlashes(key, next_slash + 2),
                            clean_key \o SubSeq(key, prev_slash, next_slash - 1))

\* the while loop of "Remove duplicate slashes" and the strcpy after it
RECURSIVE CleanLoop(_, _, _, _)
CleanLoop(key, prev_slash, next_slash, clean_key) ==
    IF next_slash = 0
    THEN clean_key \o SubSeq(key, prev_slash, Len(key))
    ELSE CleanLoop(key, next_slash + 1, StrStrSlashes(key, next_slash + 1),
                   clean_key \o SubSeq(key, prev_slash, next_slash - 1))

CleanKey(key) ==
    LET next_slash == StrStrSlashes(key, 1)
    IN  IF next_slash = 0 THEN key ELSE CleanLoop(key, 1, next_slash, <<>>)

\* type & S_IFMT for a non-negative type below 2^16
MaskMode(type) == ((type \div 4096) % 16) * 4096

----------------------------------------------------------------------------
(* Stems *)

get_stem_from_file_name(buf) ==
    LET tmp == StrChr(buf, 2, "/")
    IN  IF tmp = 0 THEN 0 ELSE tmp - 1

\* the index (from 0) of the first stem equal to the first stem_len characters
FirstStem(stems, buf, stem_len) ==
    LET hits == {i \in 1..Len(stems) :
                    /\ stems[i].len = stem_len
                    /\ SubSeq(buf, 1, stem_len) = stems[i].buf}
    IN  IF hits = {} THEN -1 ELSE (CHOOSE i \in hits : \A j \in hits : i <= j) - 1

\* [id, buf]: the stem index of the file name and the text after the stem
find_stem_from_file(stems, buf) ==
    LET stem_len == get_stem_from_file_name(buf)
        id == IF stem_len = 0 THEN -1 ELSE FirstStem(stems, buf, stem_len)
    IN  [id  |-> id,
         buf |-> IF id = -1 THEN buf ELSE SubSeq(buf, stem_len + 1, Len(buf))]

MetaChars == {"*", "(", "+"}

\* the length of the stem of a pattern, 0 if it has none
get_stem_from_spec(buf) ==
    LET tmp == StrChr(buf, 2, "/")
    IN  IF tmp = 0 THEN 0
        ELSE IF \E i \in 1..(tmp - 1) : buf[i] \in MetaChars THEN 0
        ELSE tmp - 1

FirstMeta(regex_str) ==
    LET hits == {i \in 1..Len(regex_str) : regex_str[i] \in MetaChars}
    IN  IF hits = {} THEN 0 ELSE CHOOSE i \in hits : \A j \in hits : i <= j

\* the number of characters a token stands for: "*" is the two of ".*"
RECURSIVE ByteLen(_)
ByteLen(s) ==
    IF s = <<>> THEN 0
    ELSE (IF Head(s) = "*" THEN 2 ELSE 1) + ByteLen(Tail(s))

\* [hasMetaChars, prefix_len] of a pattern
spec_hasMetaChars(regex_str) ==
    LET m == FirstMeta(regex_str)
    IN  IF m = 0
        THEN [hasMetaChars |-> FALSE, prefix_len |-> ByteLen(regex_str)]
        ELSE [hasMetaChars |-> TRUE,
              prefix_len   |-> ByteLen(SubSeq(regex_str, 1, m - 1))]

----------------------------------------------------------------------------
(* The regex engine *)

RECURSIVE FullMatch(_, _)
FullMatch(pat, txt) ==
    IF pat = <<>> THEN txt = <<>>
    ELSE IF Head(pat) = "*"
         THEN \/ FullMatch(Tail(pat), txt)
              \/ txt # <<>> /\ FullMatch(pat, Tail(txt))
         ELSE /\ txt # <<>>
              /\ Head(txt) = Head(pat)
              /\ FullMatch(Tail(pat), Tail(txt))

\* txt is the beginning of a text the pattern matches
RECURSIVE PrefixMatch(_, _)
PrefixMatch(pat, txt) ==
    IF txt = <<>> THEN TRUE
    ELSE IF pat = <<>> THEN FALSE
    ELSE IF Head(pat) = "*" THEN TRUE
    ELSE Head(txt) = Head(pat) /\ PrefixMatch(Tail(pat), Tail(txt))

\* the engine gives up on the pattern at match time
EngineFails(pat) == \E i \in 1..Len(pat) : pat[i] = "+"

regex_match(pat, txt, partial) ==
    IF EngineFails(pat) THEN "REGEX_ERROR"
    ELSE IF FullMatch(pat, txt) THEN "REGEX_MATCH"
    ELSE IF partial /\ PrefixMatch(pat, txt) THEN "REGEX_MATCH_PARTIAL"
    ELSE "REGEX_NO_MATCH"

\* the pattern compile_regex compiles: regex_str without the stem
RegexOf(spec, stems) ==
    IF spec.stem_id = -1 THEN spec.regex_str
    ELSE SubSeq(spec.regex_str, stems[spec.stem_id + 1].len + 1, Len(spec.regex_str))

\* compile_regex(): 0, or -1 when the pattern does not compile
compile_regex(spec, stems) ==
    IF spec.regex THEN 0
    ELSE IF \E i \in 1..Len(spec.regex_str) : spec.regex_str[i] = "(" THEN -1
    ELSE 0

----------------------------------------------------------------------------
(* Lookup *)

\* PassesFilters without the test of the mode
PassesFiltersStemOnly(spec, file_stem, mode) ==
    spec.stem_id = -1 \/ spec.stem_id = file_stem

\* the condition guarding the regex check in the scan of lookup_common
PassesFilters(spec, file_stem, mode) ==
    /\ (spec.stem_id = -1 \/ spec.stem_id = file_stem)
    /\ (mode = 0 \/ spec.mode = 0 \/ mode = spec.mode)

\* regex_match on key for a spec without stem, on buf for one with a stem
MatchSpec(spec, stems, key, buf, partial) ==
    regex_match(RegexOf(spec, stems), IF spec.stem_id = -1 THEN key ELSE buf, partial)

\* ScanLoop going up from the first spec to index i
RECURSIVE ScanUp(_, _, _, _, _, _, _, _, _)
ScanUp(specs, stems, key, buf, file_stem, mode, partial, j, i) ==
    IF j > i THEN [kind |-> "none", i |-> 0]
    ELSE IF PassesFilters(specs[j], file_stem, mode)
    THEN IF compile_regex(specs[j], stems) < 0
         THEN [kind |-> "compile_error", i |-> j]
         ELSE LET rc == MatchSpec(specs[j], stems, key, buf, partial)
              IN  IF rc = "REGEX_MATCH" THEN [kind |-> "match", i |-> j]
                  ELSE IF partial /\ rc = "REGEX_MATCH_PARTIAL"
                  THEN [kind |-> "partial", i |-> j]
                  ELSE ScanUp(specs, stems, key, buf, file_stem, mode, partial, j + 1, i)
    ELSE ScanUp(specs, stems, key, buf, file_stem, mode, partial, j + 1, i)

ScanLoopForward(specs, stems, key, buf, file_stem, mode, partial, i) ==
    ScanUp(specs, stems, key, buf, file_stem, mode, partial, 1, i)

\* ScanLoop going on to the next spec after a regex error
RECURSIVE ScanLoopSkipsErrors(_, _, _, _, _, _, _, _)
ScanLoopSkipsErrors(specs, stems, key, buf, file_stem, mode, partial, i) ==
    IF i = 0 THEN [kind |-> "none", i |-> 0]
    ELSE IF PassesFilters(specs[i], file_stem, mode) /\ compile_regex(specs[i], stems) >= 0
    THEN LET rc == MatchSpec(specs[i], stems, key, buf, partial)
         IN  IF rc = "REGEX_MATCH" THEN [kind |-> "match", i |-> i]
             ELSE IF partial /\ rc = "REGEX_MATCH_PARTIAL"
             THEN [kind |-> "partial", i |-> i]
             ELSE ScanLoopSkipsErrors(specs, stems, key, buf, file_stem, mode,
                                      partial, i - 1)
    ELSE ScanLoopSkipsErrors(specs, stems, key, buf, file_stem, mode, partial, i - 1)

\* the for loop of lookup_common from index i (from 1) downwards:
\* how it ends and at which index (0: the loop ran out)
RECURSIVE ScanLoop(_, _, _, _, _, _, _, _)
ScanLoop(specs, stems, key, buf, file_stem, mode, partial, i) ==
    IF i = 0 THEN [kind |-> "none", i |-> 0]
    ELSE IF PassesFilters(specs[i], file_stem, mode)
    THEN IF compile_regex(specs[i], stems) < 0
         THEN [kind |-> "compile_error", i |-> i]
         ELSE LET rc == MatchSpec(specs[i], stems, key, buf, partial)
              IN  IF rc = "REGEX_MATCH" THEN [kind |-> "match", i |-> i]
                  ELSE IF partial /\ rc = "REGEX_MATCH_PARTIAL"
                  THEN [kind |-> "partial", i |-> i]
                  ELSE IF rc = "REGEX_NO_MATCH"
                  THEN ScanLoop(specs, stems, key, buf, file_stem, mode, partial, i - 1)
                  ELSE [kind |-> "error", i |-> i]
    ELSE ScanLoop(specs, stems, key, buf, file_stem, mode, partial, i - 1)

\* the spec store after the scan: the specs the scan compiled, the one it counted
AfterScan(specs, file_stem, mode, end) ==
    [j \in 1..Len(specs) |->
        IF j < end.i \/ ~PassesFilters(specs[j], file_stem, mode) THEN specs[j]
        ELSE IF j = end.i /\ end.kind = "compile_error" THEN specs[j]
        ELSE [specs[j] EXCEPT
                !.regex = TRUE,
                !.matches = IF j = end.i /\ end.kind = "match" THEN @ + 1 ELSE @]]

\* lookup_common with a scan that starts one below the last spec
lookup_common_from_nspec_2(specs, stems, key, type, partial, errno_in) ==
    IF Len(specs) = 0
    THEN [ret |-> 0, errno |-> "ENOENT", specs |-> specs]
    ELSE LET mode == MaskMode(type)
             Ended(end) ==
                 IF end.kind \in {"compile_error", "error"} \/ end.i = 0
                    \/ specs[end.i].ctx_raw = NONE
                 THEN [ret |-> 0, errno |-> "ENOENT", specs |-> specs]
                 ELSE [ret |-> end.i, errno |-> "0", specs |-> specs]
             Scan(clean, fsf) ==
                 Ended(ScanLoop(specs, stems, clean, fsf.buf, fsf.id, mode, partial,
                                Len(specs) - 1))
             Cleaned(clean) == Scan(clean, find_stem_from_file(stems, clean))
         IN  Cleaned(CleanKey(key))

\* lookup_common without the test of the context against "<<none>>"
lookup_common_returns_none(specs, stems, key, type, partial, errno_in) ==
    IF Len(specs) = 0
    THEN [ret |-> 0, errno |-> "ENOENT", specs |-> specs]
    ELSE LET mode == MaskMode(type)
             Ended(end, after) ==
                 IF end.kind = "compile_error"
                 THEN [ret |-> 0, errno |-> errno_in, specs |-> after]
                 ELSE IF end.kind = "error" \/ end.i = 0
                 THEN [ret |-> 0, errno |-> "ENOENT", specs |-> after]
                 ELSE [ret |-> end.i, errno |-> "0", specs |-> after]
             Scanned(fsf, end) == Ended(end, AfterScan(specs, fsf.id, mode, end))
             Scan(clean, fsf) ==
                 Scanned(fsf, ScanLoop(specs, stems, clean, fsf.buf, fsf.id, mode,
                                       partial, Len(specs)))
             Cleaned(clean) == Scan(clean, find_stem_from_file(stems, clean))
         IN  Cleaned(CleanKey(key))

\* [ret, errno, specs]: ret is the index (from 1) of the spec returned, 0 for NULL
lookup_common(specs, stems, key, type, partial, errno_in) ==
    IF Len(specs) = 0
    THEN [ret |-> 0, errno |-> "ENOENT", specs |-> specs]
    ELSE LET mode == MaskMode(type)
             \* after the loop: finish, with the spec store as the scan left it
             Ended(end, after) ==
                 IF end.kind = "compile_error"
                 THEN [ret |-> 0, errno |-> errno_in, specs |-> after]
                 ELSE IF end.kind = "error"
                 THEN [ret |-> 0, errno |-> "ENOENT", specs |-> after]
                 ELSE IF end.i = 0 \/ specs[end.i].ctx_raw = NONE
                 THEN [ret |-> 0, errno |-> "ENOENT", specs |-> after]
                 ELSE [ret |-> end.i, errno |-> "0", specs |-> after]
             Scanned(fsf, end) == Ended(end, AfterScan(specs, fsf.id, mode, end))
             Scan(clean, fsf) ==
                 Scanned(fsf, ScanLoop(specs, stems, clean, fsf.buf, fsf.id, mode,
                                       partial, Len(specs)))
             Cleaned(clean) == Scan(clean, find_stem_from_file(stems, clean))
         IN  Cleaned(CleanKey(key))

lookup(specs, stems, key, type, errno_in) ==
    lookup_common(specs, stems, key, type, FALSE, errno_in)

partial_match(specs, stems, key, errno_in) ==
    lookup_common(specs, stems, key, 0, TRUE, errno_in)

\* AliasLoop taking an alias whose prefix_len equals the best so far
RECURSIVE AliasLoopAtLeast(_, _, _, _, _)
AliasLoopAtLeast(st, stems, aliases, type, i) ==
    IF i > Len(aliases) THEN st
    ELSE LET Probed(r) ==
                 IF r.ret # 0 /\ ~r.specs[r.ret].hasMetaChars
                 THEN [st EXCEPT !.specs = r.specs, !.errno = r.errno,
                                 !.hits = Append(st.hits, r.ret),
                                 !.lr = r.ret, !.out = TRUE]
                 ELSE IF r.ret # 0 /\ r.specs[r.ret].prefix_len >= st.prefix_len
                 THEN AliasLoopAtLeast([st EXCEPT !.specs = r.specs, !.errno = r.errno,
                                           !.hits = Append(st.hits, r.ret), !.best = i,
                                           !.prefix_len = r.specs[r.ret].prefix_len],
                                stems, aliases, type, i + 1)
                 ELSE AliasLoopAtLeast([st EXCEPT !.specs = r.specs, !.errno = r.errno,
                                           !.hits = Append(st.hits, r.ret)],
                                stems, aliases, type, i + 1)
         IN  Probed(lookup_common(st.specs, stems, aliases[i], type, FALSE, st.errno))

\* the for loop over the aliases of lookup_best_match, from alias i on;
\* st = [specs, errno, best, prefix_len, lr, hits], lr = 0 while no exact match;
\* best and the entries of hits are positions in specs[] of the function
\* (0 the key, i the i-th alias), hits[p] the spec index found there
RECURSIVE AliasLoop(_, _, _, _, _)
AliasLoop(st, stems, aliases, type, i) ==
    IF i > Len(aliases) THEN st
    ELSE LET Probed(r) ==
                 IF r.ret # 0 /\ ~r.specs[r.ret].hasMetaChars
                 THEN [st EXCEPT !.specs = r.specs, !.errno = r.errno,
                                 !.hits = Append(st.hits, r.ret),
                                 !.lr = r.ret, !.out = TRUE]
                 ELSE IF r.ret # 0 /\ r.specs[r.ret].prefix_len > st.prefix_len
                 THEN AliasLoop([st EXCEPT !.specs = r.specs, !.errno = r.errno,
                                    !.hits = Append(st.hits, r.ret), !.best = i,
                                    !.prefix_len = r.specs[r.ret].prefix_len],
                         stems, aliases, type, i + 1)
                 ELSE AliasLoop([st EXCEPT !.specs = r.specs, !.errno = r.errno,
                                    !.hits = Append(st.hits, r.ret)],
                         stems, aliases, type, i + 1)
         IN  Probed(lookup_common(st.specs, stems, aliases[i], type, FALSE, st.errno))

\* [ret, errno, specs, hits]
lookup_best_match(specs, stems, key, aliases, type, errno_in) ==
    IF Len(aliases) = 0
    THEN LET Only(r) ==
                 [ret |-> r.ret, errno |-> r.errno, specs |-> r.specs, hits |-> <<r.ret>>]
         IN  Only(lookup(specs, stems, key, type, errno_in))
    ELSE LET \* after the loop over the aliases
             Finished(st) ==
                 IF st.out
                 THEN [ret |-> st.lr, errno |-> st.errno, specs |-> st.specs,
                       hits |-> st.hits]
                 ELSE IF st.best >= 0
                 THEN [ret |-> st.hits[st.best + 1], errno |-> st.errno,
                       specs |-> st.specs, hits |-> st.hits]
                 ELSE [ret |-> 0, errno |-> "ENOENT", specs |-> st.specs,
                       hits |-> st.hits]
             First(r0, st0) ==
                 IF r0.ret # 0 /\ ~r0.specs[r0.ret].hasMetaChars
                 THEN [ret |-> r0.ret, errno |-> r0.errno, specs |-> r0.specs,
                       hits |-> <<r0.ret>>]
                 ELSE Finished(AliasLoop(IF r0.ret # 0
                                         THEN [st0 EXCEPT !.best = 0,
                                                 !.prefix_len = r0.specs[r0.ret].prefix_len]
                                         ELSE st0,
                                         stems, aliases, type, 1))
             Keyed(r0) ==
                 First(r0, [specs |-> r0.specs, errno |-> r0.errno, hits |-> <<r0.ret>>,
                            best |-> -1, prefix_len |-> 0, lr |-> 0, out |-> FALSE])
         IN  Keyed(lookup_common(specs, stems, key, type, FALSE, errno_in))

----------------------------------------------------------------------------
(* The heap and the mapped regions *)

Alloc(h, kind) == Append(h, [kind |-> kind, frees |-> 0])

\* free(p); free(NULL) does nothing
Free(h, id) == IF id = 0 THEN h ELSE [h EXCEPT ![id].frees = @ + 1]

RECURSIVE FreeAll(_, _)
FreeAll(h, ids) ==
    IF ids = <<>> THEN h ELSE FreeAll(Free(h, Head(ids)), Tail(ids))

RECURSIVE UnmapAll(_, _)
UnmapAll(m, areas) ==
    IF areas = <<>> THEN m
    ELSE UnmapAll([m EXCEPT ![Head(areas).region].unmaps = @ + 1], Tail(areas))

----------------------------------------------------------------------------
(* Rule files *)

TextTails == {"ok", "badline"}
BinTails == {"ok", "hdr", "ctx_overrun", "ctx_nonul", "regex_len"}

\* a context the validation callback rejects
CtxBad == <<"?">>

\* selabel_validate on a raw context: 0, or -1 when the context is invalid
selabel_validate(ctx) == IF ctx \in Contexts THEN 0 ELSE -1

Compilable(rule) == \A i \in 1..Len(rule.regex_str) : rule.regex_str[i] # "("

\* the files holding at most MaxFileLen rules of the set rules, then
\* (tail) the end of the file or an entry the loader rejects; in a text file
\* the tail "badline" is the line that fails, an invalid context included
FilesOver(rules, versions) ==
    [kind : {"text"},
     entries : SeqsUpTo({r \in rules : selabel_validate(r.ctx) = 0}, MaxFileLen),
     tail : TextTails, vers : {"new"}]
    \cup
    [kind : {"bin"}, entries : SeqsUpTo({r \in rules : Compilable(r)}, MaxFileLen),
     tail : BinTails, vers : versions]

\* the rules of the files init is run on
InitRules ==
    { [regex_str |-> <<"/", "a", "/", "*">>, mode |-> 0, ctx |-> CtxX],
      [regex_str |-> <<"/", "b">>, mode |-> S_IFREG, ctx |-> CtxX],
      [regex_str |-> <<"/", "a", "/", "b">>, mode |-> 0, ctx |-> CtxBad] }

Files == FilesOver(InitRules, {"new"})

\* the stem of a rule as a string, <<>> if it has none
StemOf(rule) == SubSeq(rule.regex_str, 1, get_stem_from_spec(rule.regex_str))

\* the stem table of a compiled file: the distinct stems of its rules, in order
RECURSIVE FileStems(_)
FileStems(entries) ==
    IF entries = <<>> THEN <<>>
    ELSE LET before == FileStems(SubSeq(entries, 1, Len(entries) - 1))
             st == StemOf(entries[Len(entries)])
         IN  IF st = <<>> \/ \E i \in 1..Len(before) : before[i] = st
             THEN before ELSE Append(before, st)

\* the stem_id field of a rule in a compiled file (from 0), -1 without stem
FileStemId(entries, rule) ==
    LET tab == FileStems(entries)
        st == StemOf(rule)
    IN  IF st = <<>> THEN -1
        ELSE (CHOOSE i \in 1..Len(tab) : tab[i] = st) - 1

find_stem(stems, buf) ==
    LET hits == {i \in 1..Len(stems) : stems[i].buf = buf}
    IN  IF hits = {} THEN -1 ELSE (CHOOSE i \in hits : \A j \in hits : i <= j) - 1

\* a handle's data as one value: d = [spec_arr, stem_arr, mmap_areas, heap, maps]

\* process_line on one rule: the stem, the strings, the spec appended
process_line(d, rule) ==
    LET st == StemOf(rule)
        old == IF st = <<>> THEN -1 ELSE find_stem(d.stem_arr, st)
        new_stem == st # <<>> /\ old = -1
        h1 == IF new_stem THEN Alloc(d.heap, "stem_buf") ELSE d.heap
        stems == IF new_stem
                 THEN Append(d.stem_arr, [buf |-> st, len |-> Len(st),
                                          from_mmap |-> FALSE, buf_id |-> Len(h1)])
                 ELSE d.stem_arr
        h2 == Alloc(h1, "regex_str")
        h3 == IF rule.mode # 0 THEN Alloc(h2, "type_str") ELSE h2
        h4 == Alloc(h3, "ctx_raw")
        mc == spec_hasMetaChars(rule.regex_str)
        spec == [regex_str |-> rule.regex_str, mode |-> rule.mode,
                 ctx_raw |-> rule.ctx, ctx_id |-> Len(h4), str_id |-> Len(h2),
                 type_id |-> IF rule.mode # 0 THEN Len(h3) ELSE 0,
                 stem_id |-> IF st = <<>> THEN -1
                             ELSE IF new_stem THEN Len(stems) - 1 ELSE old,
                 hasMetaChars |-> mc.hasMetaChars, prefix_len |-> mc.prefix_len,
                 from_mmap |-> FALSE, matches |-> 0, regex |-> FALSE]
    IN  [d EXCEPT !.spec_arr = Append(@, spec), !.stem_arr = stems, !.heap = h4]

\* the getline loop of process_text_file from line i on: [d, rc, errno]
RECURSIVE process_text_file(_, _, _, _)
process_text_file(d, file, i, errno_in) ==
    IF i > Len(file.entries)
    THEN IF file.tail = "badline"
         THEN [d |-> d, rc |-> -1, errno |-> "EINVAL"]
         ELSE [d |-> d, rc |-> 0, errno |-> errno_in]
    ELSE process_text_file(process_line(d, file.entries[i]), file, i + 1, errno_in)

\* the stem loop of load_mmap from file stem i on: [stem_arr, stem_map]
RECURSIVE LoadStems(_, _, _, _)
LoadStems(stems, stem_map, tab, i) ==
    IF i > Len(tab) THEN [stem_arr |-> stems, stem_map |-> stem_map]
    ELSE LET found == find_stem(stems, tab[i])
         IN  IF found < 0
             THEN LoadStems(Append(stems, [buf |-> tab[i], len |-> Len(tab[i]),
                                           from_mmap |-> TRUE, buf_id |-> 0]),
                            Append(stem_map, Len(stems)), tab, i + 1)
             ELSE LoadStems(stems, Append(stem_map, found), tab, i + 1)

\* one spec of a compiled file, once its context string str_buf is read
MmapSpec(file, rule, stem_map, ctx_id) ==
    LET stem_id == FileStemId(file.entries, rule)
        mc == spec_hasMetaChars(rule.regex_str)
    IN  [regex_str |-> rule.regex_str, mode |-> rule.mode,
         ctx_raw |-> rule.ctx, ctx_id |-> ctx_id, str_id |-> 0, type_id |-> 0,
         stem_id |-> IF stem_id < 0 \/ stem_id >= Len(stem_map) THEN -1
                     ELSE stem_map[stem_id + 1],
         hasMetaChars |-> mc.hasMetaChars,
         prefix_len |-> IF file.vers = "new" THEN mc.prefix_len ELSE 0,
         from_mmap |-> TRUE, matches |-> 0, regex |-> TRUE]

\* the spec loop of load_mmap from entry i on: [d, rc]
RECURSIVE LoadSpecs(_, _, _, _, _)
LoadSpecs(d, file, stem_map, validating, i) ==
    IF i > Len(file.entries)
    THEN IF file.tail = "ok" THEN [d |-> d, rc |-> 0]
         ELSE IF file.tail = "ctx_nonul"
         THEN [d |-> [d EXCEPT !.heap = Free(Alloc(@, "ctx_raw"), Len(@) + 1)],
               rc |-> -1]
         ELSE [d |-> [d EXCEPT !.heap = Alloc(@, "ctx_raw")], rc |-> -1]
    ELSE LET h == Alloc(d.heap, "ctx_raw")
             spec == MmapSpec(file, file.entries[i], stem_map, Len(h))
         IN  IF spec.ctx_raw # NONE /\ validating /\ selabel_validate(spec.ctx_raw) < 0
             THEN [d |-> [d EXCEPT !.heap = h], rc |-> 0]
             ELSE LoadSpecs([d EXCEPT !.heap = h, !.spec_arr = Append(@, spec)],
                            file, stem_map, validating, i + 1)

\* load_mmap: [d, rc, errno]
load_mmap(d, file, validating, errno_in) ==
    LET h1 == Alloc(d.heap, "mmap_area")
        m1 == Append(d.maps, [unmaps |-> 0])
        d1 == [d EXCEPT !.heap = h1, !.maps = m1,
                        !.mmap_areas = <<[node |-> Len(h1), region |-> Len(m1)]>> \o @]
        tab == FileStems(file.entries)
    IN  IF file.tail = "hdr" \/ Len(tab) = 0
        THEN [d |-> d1, rc |-> -1, errno |-> errno_in]
        ELSE LET h2 == Alloc(h1, "stem_map")
                 ls == LoadStems(d1.stem_arr, <<>>, tab, 1)
                 d2 == [d1 EXCEPT !.heap = h2, !.stem_arr = ls.stem_arr]
                 r  == LoadSpecs(d2, file, ls.stem_map, validating, 1)
             IN  [d |-> [r.d EXCEPT !.heap = Free(@, Len(h2))], rc |-> r.rc,
                  errno |-> errno_in]

----------------------------------------------------------------------------
(* The specfile resolver *)

\* open_file taking a later candidate only when it is strictly newer
open_file_strictly_newer(cands, open_oldest) ==
    IF ~cands[1].exists
    THEN IF cands[2].exists THEN 2 ELSE 0
    ELSE IF ~cands[2].exists THEN 1
    ELSE IF open_oldest # (cands[2].mtime > cands[1].mtime) THEN 2 ELSE 1

\* cands = <<plain, bin>>, each [exists, mtime]; the index open_file settles
\* on (1 or 2), 0 when it finds none
open_file(cands, open_oldest) ==
    IF ~cands[1].exists
    THEN IF cands[2].exists THEN 2 ELSE 0
    ELSE IF ~cands[2].exists THEN 1
    ELSE IF open_oldest # (cands[2].mtime >= cands[1].mtime) THEN 2 ELSE 1

----------------------------------------------------------------------------
(* Duplicates, sorting, closing, comparing *)

\* NodupsLoop without the test of the modes
RECURSIVE NodupsLoopAnyMode(_, _, _, _)
NodupsLoopAnyMode(specs, ii, jj, rc) ==
    IF ii > Len(specs) THEN rc
    ELSE IF jj > Len(specs) THEN NodupsLoopAnyMode(specs, ii + 1, ii + 2, rc)
    ELSE IF specs[jj].regex_str = specs[ii].regex_str
         THEN NodupsLoopAnyMode(specs, ii, jj + 1, -1)
         ELSE NodupsLoopAnyMode(specs, ii, jj + 1, rc)

\* the two loops of nodups_specs, from the pair (ii, jj) on; indices from 1
RECURSIVE NodupsLoop(_, _, _, _)
NodupsLoop(specs, ii, jj, rc) ==
    IF ii > Len(specs) THEN rc
    ELSE IF jj > Len(specs) THEN NodupsLoop(specs, ii + 1, ii + 2, rc)
    ELSE IF /\ specs[jj].regex_str = specs[ii].regex_str
            /\ (specs[jj].mode = 0 \/ specs[ii].mode = 0
                \/ specs[jj].mode = specs[ii].mode)
         THEN NodupsLoop(specs, ii, jj + 1, -1)
         ELSE NodupsLoop(specs, ii, jj + 1, rc)

nodups_specs(specs) == NodupsLoop(specs, 1, 2, 0)

IsRegexSpec(spec) == spec.hasMetaChars
IsExactSpec(spec) == ~spec.hasMetaChars

\* sort_specs: the regex specs, then the exact ones, each group in its order
sort_specs(specs) == SelectSeq(specs, IsRegexSpec) \o SelectSeq(specs, IsExactSpec)

\* what closef frees of one spec
RECURSIVE SpecFrees(_)
SpecFrees(specs) ==
    IF specs = <<>> THEN <<>>
    ELSE LET spec == Head(specs)
         IN  (IF spec.from_mmap THEN <<spec.ctx_id>>
              ELSE <<spec.ctx_id, spec.str_id, spec.type_id>>) \o SpecFrees(Tail(specs))

RECURSIVE StemFrees(_)
StemFrees(stems) ==
    IF stems = <<>> THEN <<>>
    ELSE (IF Head(stems).from_mmap THEN <<>> ELSE <<Head(stems).buf_id>>)
         \o StemFrees(Tail(stems))

RECURSIVE AreaFrees(_)
AreaFrees(areas) ==
    IF areas = <<>> THEN <<>> ELSE <<Head(areas).node>> \o AreaFrees(Tail(areas))

\* the block selabel_file_init allocates for rec->data
DataBlock == 1

\* closef on a handle whose rec->data is data_in: [data, d]
closef(data_in, d) ==
    IF ~data_in THEN [data |-> FALSE, d |-> d]
    ELSE [data |-> FALSE,
          d |-> [spec_arr |-> <<>>, stem_arr |-> <<>>, mmap_areas |-> <<>>,
                 heap |-> FreeAll(d.heap,
                                  SpecFrees(d.spec_arr) \o StemFrees(d.stem_arr)
                                  \o AreaFrees(d.mmap_areas) \o <<DataBlock>>),
                 maps |-> UnmapAll(d.maps, d.mmap_areas)]]

\* regex_cmp of two compiled regexes
regex_cmp(spec1, stems1, spec2, stems2) ==
    IF RegexOf(spec1, stems1) = RegexOf(spec2, stems2)
    THEN "SELABEL_EQUAL" ELSE "SELABEL_INCOMPARABLE"

\* the field comparisons of cmp on one pair: TRUE when cmp returns incomp()
Mismatch(spec1, stems1, spec2, stems2) ==
    \/ IF spec1.regex /\ spec2.regex
       THEN regex_cmp(spec1, stems1, spec2, stems2) = "SELABEL_INCOMPARABLE"
       ELSE spec1.regex_str # spec2.regex_str
    \/ spec1.mode # spec2.mode
    \/ spec1.stem_id = -1 /\ spec2.stem_id # -1
    \/ spec2.stem_id = -1 /\ spec1.stem_id # -1
    \/ /\ spec1.stem_id # -1 /\ spec2.stem_id # -1
       /\ LET stem1 == stems1[spec1.stem_id + 1]
              stem2 == stems2[spec2.stem_id + 1]
          IN  stem1.len # stem2.len \/ stem1.buf # stem2.buf
    \/ spec1.ctx_raw # spec2.ctx_raw

\* the while loop of cmp; i and j count from 0 as in the code
RECURSIVE CmpWalk(_, _, _, _, _, _, _, _)
CmpWalk(specs1, stems1, specs2, stems2, i, j, skipped1, skipped2) ==
    IF ~(i < Len(specs1) /\ j < Len(specs2))
    THEN [incomp |-> FALSE, i |-> i, j |-> j,
          skipped1 |-> skipped1, skipped2 |-> skipped2]
    ELSE LET spec1 == specs1[i + 1]
             spec2 == specs2[j + 1]
         IN  IF ~spec1.hasMetaChars /\ spec2.hasMetaChars
             THEN CmpWalk(specs1, stems1, specs2, stems2, i, j + 1, skipped1, TRUE)
             ELSE IF spec1.hasMetaChars /\ ~spec2.hasMetaChars
             THEN CmpWalk(specs1, stems1, specs2, stems2, i + 1, j, TRUE, skipped2)
             ELSE IF Mismatch(spec1, stems1, spec2, stems2)
             THEN [incomp |-> TRUE, i |-> i, j |-> j,
                   skipped1 |-> skipped1, skipped2 |-> skipped2]
             ELSE CmpWalk(specs1, stems1, specs2, stems2, i + 1, j + 1,
                          skipped1, skipped2)

\* cmp: [result, walk]
cmp(specs1, stems1, specs2, stems2) ==
    LET w == CmpWalk(specs1, stems1, specs2, stems2, 0, 0, FALSE, FALSE)
    IN  [walk |-> w,
         result |->
            IF w.incomp THEN "SELABEL_INCOMPARABLE"
            ELSE IF (w.skipped1 \/ w.i < Len(specs1)) /\ ~w.skipped2
            THEN "SELABEL_SUPERSET"
            ELSE IF (w.skipped2 \/ w.j < Len(specs2)) /\ ~w.skipped1
            THEN "SELABEL_SUBSET"
            ELSE IF w.skipped1 /\ w.skipped2 THEN "SELABEL_INCOMPARABLE"
            ELSE "SELABEL_EQUAL"]

----------------------------------------------------------------------------
(* State of the handle *)

Unread == [kind |-> "unread", entries |-> <<>>, tail |-> "ok", vers |-> "new"]

Absent == [exists |-> FALSE, mtime |-> 0, file |-> Unread]

Candidates ==
    {Absent} \cup {[exists |-> TRUE, mtime |-> t, file |-> Unread] : t \in 1..MaxMtime}

\* nspec0, nstem0, nareas0: the sizes of the spec store, the stem table and
\* the mmap list when process_file was entered
NoFs == [suffix |-> "none", cands |-> <<Absent, Absent>>, pass |-> 0,
         found |-> 0, oldest |-> FALSE, returned |-> FALSE,
         nspec0 |-> 0, nstem0 |-> 0, nareas0 |-> 0]

NoWalk == [incomp |-> FALSE, i |-> 0, j |-> 0, skipped1 |-> FALSE,
           skipped2 |-> FALSE]

NoRes == [op |-> "none", key |-> <<>>, aliases |-> <<>>, type |-> 0, ret |-> 0,
          hits |-> <<>>, verdict |-> "", walk |-> NoWalk]

NoOther == [spec_arr |-> <<>>, stem_arr |-> <<>>]

\* the data selabel_file_init hands to init: zeroed, in its own block
NewData == [spec_arr |-> <<>>, stem_arr |-> <<>>, mmap_areas |-> <<>>,
            heap |-> <<[kind |-> "data", frees |-> 0]>>, maps |-> <<>>]

D == [spec_arr |-> spec_arr, stem_arr |-> stem_arr, mmap_areas |-> mmap_areas,
      heap |-> heap, maps |-> maps]

SetD(d) ==
    /\ spec_arr' = d.spec_arr
    /\ stem_arr' = d.stem_arr
    /\ mmap_areas' = d.mmap_areas
    /\ heap' = d.heap
    /\ maps' = d.maps

\* selabel_file_init up to the call of init, for each choice of options
Init ==
    /\ pc = "primary"
    /\ opts \in [validating : BOOLEAN, baseonly : BOOLEAN]
    /\ data = TRUE
    /\ spec_arr = NewData.spec_arr
    /\ stem_arr = NewData.stem_arr
    /\ mmap_areas = NewData.mmap_areas
    /\ heap = NewData.heap
    /\ maps = NewData.maps
    /\ fs = NoFs
    /\ status = -1
    /\ errno = "0"
    /\ res = NoRes
    /\ other = NoOther
    /\ nloads = 0
    /\ nops = 0

----------------------------------------------------------------------------
(* init *)

\* process_file is entered for the primary path or an overlay: what is on disk
BeginFile ==
    /\ pc \in {"primary", "homedirs", "local"}
    /\ \E c1 \in Candidates, c2 \in Candidates :
          fs' = [NoFs EXCEPT !.suffix = pc, !.cands = <<c1, c2>>,
                             !.nspec0 = Len(spec_arr), !.nstem0 = Len(stem_arr),
                             !.nareas0 = Len(mmap_areas)]
    /\ pc' = "pass"
    /\ UNCHANGED <<opts, data, spec_arr, stem_arr, mmap_areas, heap, maps,
                   status, errno, res, other, nloads, nops>>

\* where init goes on when process_file returns rc with errno e
AfterFile(suffix, rc, e) ==
    IF suffix = "primary"
    THEN IF rc # 0 THEN "finish"
         ELSE IF opts.validating THEN "nodups"
         ELSE IF opts.baseonly THEN "sort" ELSE "homedirs"
    ELSE IF rc # 0 /\ e # "ENOENT" THEN "finish"
    ELSE IF suffix = "homedirs" THEN "local" ELSE "sort"

\* load_mmap or process_text_file, as fcontext_is_binary decides
LoadFile(d, file, errno_in) ==
    IF file.kind = "bin" THEN load_mmap(d, file, opts.validating, errno_in)
    ELSE process_text_file(d, file, 1, errno_in)

\* one pass of the loop of process_file: open_file, the load, fclose
Pass ==
    /\ pc = "pass"
    /\ LET oldest == fs.pass > 0
           found == open_file(fs.cands, oldest)
           \* stat() of a missing candidate leaves ENOENT in errno
           e1 == IF \E c \in 1..2 : ~fs.cands[c].exists THEN "ENOENT" ELSE errno
       IN  IF found = 0
           THEN /\ fs' = [fs EXCEPT !.found = 0, !.oldest = oldest, !.returned = TRUE]
                /\ status' = -1
                /\ errno' = "ENOENT"
                /\ pc' = AfterFile(fs.suffix, -1, "ENOENT")
                /\ UNCHANGED <<spec_arr, stem_arr, mmap_areas, heap, maps, nloads>>
           ELSE \E file \in Files :
                /\ fs.cands[found].file \in {Unread, file}
                /\ nloads < MaxLoads
                /\ nloads' = nloads + 1
                /\ Len(spec_arr) + Len(file.entries) <= MaxSpecs
                /\ LET r == LoadFile(D, file, e1)
                   IN  /\ SetD(r.d)
                       /\ errno' = r.errno
                       /\ IF r.rc = 0
                          THEN /\ status' = 0
                               /\ pc' = AfterFile(fs.suffix, 0, r.errno)
                               /\ fs' = [fs EXCEPT !.found = found, !.oldest = oldest,
                                                   !.cands[found].file = file,
                                                   !.returned = TRUE]
                          ELSE IF fs.pass = 0
                          THEN /\ status' = status
                               /\ pc' = "pass"
                               /\ fs' = [fs EXCEPT !.found = found, !.oldest = oldest,
                                                   !.cands[found].file = file,
                                                   !.pass = 1]
                          ELSE /\ status' = -1
                               /\ pc' = AfterFile(fs.suffix, -1, r.errno)
                               /\ fs' = [fs EXCEPT !.found = found, !.oldest = oldest,
                                                   !.cands[found].file = file,
                                                   !.returned = TRUE]
    /\ UNCHANGED <<opts, data, res, other, nops>>

\* the nodups_specs call of init when validating
Nodups ==
    /\ pc = "nodups"
    /\ LET rc == nodups_specs(spec_arr)
       IN  /\ status' = rc
           /\ errno' = IF rc # 0 THEN "EINVAL" ELSE errno
           /\ pc' = IF rc # 0 THEN "finish"
                    ELSE IF opts.baseonly THEN "sort" ELSE "homedirs"
    /\ fs' = NoFs
    /\ UNCHANGED <<opts, data, spec_arr, stem_arr, mmap_areas, heap, maps, res, other,
                   nloads, nops>>

\* digest_gen_hash and sort_specs
Sort ==
    /\ pc = "sort"
    /\ spec_arr' = sort_specs(spec_arr)
    /\ status' = 0
    /\ pc' = "finish"
    /\ fs' = NoFs
    /\ UNCHANGED <<opts, data, stem_arr, mmap_areas, heap, maps, errno, res, other,
                   nloads, nops>>

\* the label finish of init
Finish ==
    /\ pc = "finish"
    /\ IF status # 0
       THEN LET c == closef(data, D)
            IN  /\ data' = c.data
                /\ SetD(c.d)
                /\ pc' = "failed"
       ELSE /\ pc' = "ready"
            /\ UNCHANGED <<data, spec_arr, stem_arr, mmap_areas, heap, maps>>
    /\ fs' = NoFs
    /\ UNCHANGED <<opts, status, errno, res, other, nloads, nops>>

\* the caller closes the handle, whatever init returned, any number of times
Close ==
    /\ pc \in {"ready", "failed", "closed"}
    /\ LET c == closef(data, D)
       IN  /\ data' = c.data
           /\ SetD(c.d)
    /\ pc' = "closed"
    /\ UNCHANGED <<opts, fs, status, errno, res, other, nloads, nops>>

Next == BeginFile \/ Pass \/ Nodups \/ Sort \/ Finish \/ Close

Spec == Init /\ [][Next]_vars

----------------------------------------------------------------------------
(* Lookups on a loaded handle *)

\* the files a successful init may have read: well-formed, in either format
GoodFiles ==
    {f \in FilesOver(Rules, {"new"}) : f.tail = "ok" /\ f.entries # <<>>}

\* the loads of init in a row: [d, ok]
RECURSIVE LoadAll(_, _)
LoadAll(d, files) ==
    IF files = <<>> THEN [d |-> d, ok |-> TRUE]
    ELSE LET r == LoadFile(d, Head(files), "0")
         IN  IF r.rc # 0 THEN [d |-> r.d, ok |-> FALSE]
             ELSE LoadAll(r.d, Tail(files))

RECURSIVE TotalEntries(_)
TotalEntries(files) ==
    IF files = <<>> THEN 0 ELSE Len(Head(files).entries) + TotalEntries(Tail(files))

\* a handle after a successful init: files loaded in some order, then sorted
InitLookup ==
    /\ pc = "ready"
    /\ opts = [validating |-> FALSE, baseonly |-> FALSE]
    /\ data = TRUE
    /\ \E files \in SeqsUpTo(GoodFiles, MaxSpecs) :
          /\ TotalEntries(files) <= MaxSpecs
          /\ \E r \in {LoadAll(NewData, files)} :
                 /\ r.ok
                 /\ spec_arr = sort_specs(r.d.spec_arr)
                 /\ stem_arr = r.d.stem_arr
                 /\ mmap_areas = r.d.mmap_areas
                 /\ heap = r.d.heap
                 /\ maps = r.d.maps
                 /\ nloads = Len(files)
    /\ fs = NoFs
    /\ status = 0
    /\ errno = "0"
    /\ res = NoRes
    /\ other = NoOther
    /\ nops = 0

BestKeys == {<<"/", "a", "/", "b">>, <<"/", "a", "/", "a">>, <<"/", "b">>}

BestTypes == {0, S_IFREG + 420}

Lookup ==
    /\ pc = "ready"
    /\ nops < MaxOps
    /\ nops' = nops + 1
    /\ \E key \in Keys, type \in Types :
          \E r \in {lookup(spec_arr, stem_arr, key, type, errno)} :
              /\ spec_arr' = r.specs
              /\ errno' = r.errno
              /\ res' = [NoRes EXCEPT !.op = "lookup", !.key = key, !.type = type,
                                      !.ret = r.ret, !.hits = <<r.ret>>]
    /\ UNCHANGED <<pc, opts, data, stem_arr, mmap_areas, heap, maps, fs, status,
                   other, nloads>>

PartialMatch ==
    /\ pc = "ready"
    /\ nops < MaxOps
    /\ nops' = nops + 1
    /\ \E key \in Keys :
          \E r \in {partial_match(spec_arr, stem_arr, key, errno)} :
              /\ spec_arr' = r.specs
              /\ errno' = r.errno
              /\ res' = [NoRes EXCEPT !.op = "partial_match", !.key = key,
                                      !.ret = r.ret, !.hits = <<r.ret>>]
    /\ UNCHANGED <<pc, opts, data, stem_arr, mmap_areas, heap, maps, fs, status,
                   other, nloads>>

BestMatch ==
    /\ pc = "ready"
    /\ nops < MaxOps
    /\ nops' = nops + 1
    /\ \E key \in BestKeys, aliases \in SeqsUpTo(BestKeys, MaxAliases),
          type \in BestTypes :
          \E r \in {lookup_best_match(spec_arr, stem_arr, key, aliases, type, errno)} :
              /\ spec_arr' = r.specs
              /\ errno' = r.errno
              /\ res' = [NoRes EXCEPT !.op = "best_match", !.key = key,
                                      !.aliases = aliases, !.type = type,
                                      !.ret = r.ret, !.hits = r.hits]
    /\ UNCHANGED <<pc, opts, data, stem_arr, mmap_areas, heap, maps, fs, status,
                   other, nloads>>

NextLookup == Lookup \/ PartialMatch \/ BestMatch

SpecLookup == InitLookup /\ [][NextLookup]_vars

----------------------------------------------------------------------------
(* nodups_specs and cmp on loaded handles *)

CmpPatterns ==
    {<<"/", "*">>, <<"/", "a", "/", "*">>, <<"/", "a", "/", "b">>, <<"/", "b">>}

\* the rules of the first handle, and those of the handle it is compared with
CmpRules == [regex_str : CmpPatterns, mode : {0, S_IFREG, S_IFDIR}, ctx : {CtxX}]
OtherRules == [regex_str : CmpPatterns, mode : {0}, ctx : {CtxX}]

RECURSIVE LoadLines(_, _)
LoadLines(d, rules) ==
    IF rules = <<>> THEN d ELSE LoadLines(process_line(d, Head(rules)), Tail(rules))

\* the first handle has read its text file; the second one has finished init
InitCmp ==
    /\ pc = "nodups"
    /\ opts = [validating |-> TRUE, baseonly |-> TRUE]
    /\ data = TRUE
    /\ \E rules \in SeqsUpTo(CmpRules, MaxSpecs) :
          LET d == LoadLines(NewData, rules)
          IN  /\ spec_arr = d.spec_arr
              /\ stem_arr = d.stem_arr
              /\ mmap_areas = d.mmap_areas
              /\ heap = d.heap
              /\ maps = d.maps
    /\ \E rules \in SeqsUpTo(OtherRules, MaxSpecs) :
          LET d == LoadLines(NewData, rules)
          IN  other = [spec_arr |-> sort_specs(d.spec_arr), stem_arr |-> d.stem_arr]
    /\ fs = NoFs
    /\ status = 0
    /\ errno = "0"
    /\ res = NoRes
    /\ nloads = 1
    /\ nops = 0

\* nodups_specs is run on the first handle; init goes on whatever it returns
NodupsCall ==
    /\ pc = "nodups"
    /\ LET rc == nodups_specs(spec_arr)
       IN  /\ res' = [NoRes EXCEPT !.op = "nodups", !.ret = rc]
           /\ errno' = IF rc # 0 THEN "EINVAL" ELSE errno
    /\ pc' = "sort"
    /\ UNCHANGED <<opts, data, spec_arr, stem_arr, mmap_areas, heap, maps, fs,
                   status, other, nloads, nops>>

SortCall ==
    /\ pc = "sort"
    /\ spec_arr' = sort_specs(spec_arr)
    /\ pc' = "ready"
    /\ UNCHANGED <<opts, data, stem_arr, mmap_areas, heap, maps, fs, status, errno,
                   res, other, nloads, nops>>

Cmp ==
    /\ pc = "ready"
    /\ nops < MaxOps
    /\ nops' = nops + 1
    /\ LET c == cmp(spec_arr, stem_arr, other.spec_arr, other.stem_arr)
       IN  res' = [NoRes EXCEPT !.op = "cmp", !.verdict = c.result, !.walk = c.walk]
    /\ UNCHANGED <<pc, opts, data, spec_arr, stem_arr, mmap_areas, heap, maps, fs,
                   status, errno, other, nloads>>

NextCmp == NodupsCall \/ SortCall \/ Cmp

SpecCmp == InitCmp /\ [][NextCmp]_vars

----------------------------------------------------------------------------
(* Properties of lookup *)

Max(S) == CHOOSE i \in S : \A j \in S : j <= i
MinOf(S) == CHOOSE i \in S : \A j \in S : i <= j

Compiles(spec) == spec.regex \/ Compilable(spec)

\* the specs (indices from 1) that pass the filters for the key and the type
Considered(specs, stems, key, type) ==
    LET fsf == find_stem_from_file(stems, Collapse(key))
    IN  {i \in 1..Len(specs) : PassesFilters(specs[i], fsf.id, MaskMode(type))}

\* those of them whose regex matches the key in full
Matching(specs, stems, key, type) ==
    LET ck == Collapse(key)
        fsf == find_stem_from_file(stems, ck)
    IN  {i \in Considered(specs, stems, key, type) :
            /\ Compiles(specs[i])
            /\ FullMatch(RegexOf(specs[i], stems),
                         IF specs[i].stem_id = -1 THEN ck ELSE fsf.buf)}

\* the regex of the spec does not compile or makes the engine fail
Fails(spec, stems) == ~Compiles(spec) \/ EngineFails(RegexOf(spec, stems))

\* a spec above index m passes the filters and its regex fails
Blocked(specs, stems, key, type, m) ==
    \E i \in Considered(specs, stems, key, type) : i > m /\ Fails(specs[i], stems)

\* C1: the spec lookup returns is the matching spec of greatest index; it
\* returns none although specs match only when that spec's context is
\* <<none>> or the regex of a spec above it failed
Claim_C1 ==
    res.op = "lookup" =>
        LET M == Matching(spec_arr, stem_arr, res.key, res.type)
        IN  /\ res.ret # 0 => res.ret \in M /\ \A i \in M : i <= res.ret
            /\ (res.ret = 0 /\ M # {}) =>
                  \/ spec_arr[Max(M)].ctx_raw = NONE
                  \/ Blocked(spec_arr, stem_arr, res.key, res.type, Max(M))

Witness_C1 ==
    /\ res.op = "lookup"
    /\ res.ret # 0
    /\ \E i \in Matching(spec_arr, stem_arr, res.key, res.type) :
          i < res.ret /\ spec_arr[i].hasMetaChars /\ spec_arr[res.ret].hasMetaChars

\* an exact spec and a regex spec both match the key of the last lookup
ExactAndRegexMatch ==
    /\ res.op = "lookup"
    /\ LET M == Matching(spec_arr, stem_arr, res.key, res.type)
       IN  \E e \in M, r \in M : ~spec_arr[e].hasMetaChars /\ spec_arr[r].hasMetaChars

\* C2 as stated: when an exact and a regex spec both match, lookup returns
\* the label of an exact spec
Orig_C2 ==
    ExactAndRegexMatch => res.ret # 0 /\ ~spec_arr[res.ret].hasMetaChars

\* C2 amended: when an exact and a regex spec both match, the matching spec
\* of greatest index is exact and lookup returns its label, or nothing when
\* its context is <<none>>; never the label of the regex spec
Claim_C2 ==
    ExactAndRegexMatch =>
        LET top == Max(Matching(spec_arr, stem_arr, res.key, res.type))
        IN  /\ ~spec_arr[top].hasMetaChars
            /\ res.ret = IF spec_arr[top].ctx_raw = NONE THEN 0 ELSE top

\* the exact spec was loaded before the regex spec (contexts are allocated
\* in load order) and lookup returned its label
Witness_C2 ==
    /\ ExactAndRegexMatch
    /\ res.ret # 0
    /\ \E r \in Matching(spec_arr, stem_arr, res.key, res.type) :
          spec_arr[r].hasMetaChars /\ spec_arr[res.ret].ctx_id < spec_arr[r].ctx_id

\* C3 as stated: for every type, a spec returned with mode M # 0 has the
\* mode bits of the type
Orig_C3 ==
    (res.op = "lookup" /\ res.ret # 0 /\ spec_arr[res.ret].mode # 0) =>
        spec_arr[res.ret].mode = MaskMode(res.type)

\* C3 amended: for a type whose file-type bits are not 0, a spec returned
\* with mode M # 0 has the mode bits of the type
Claim_C3 ==
    (res.op = "lookup" /\ res.ret # 0 /\ spec_arr[res.ret].mode # 0
        /\ MaskMode(res.type) # 0) =>
        spec_arr[res.ret].mode = MaskMode(res.type)

\* a spec of another mode matches the key with a higher index than the spec
\* returned, and was passed over
Witness_C3 ==
    /\ res.op = "lookup"
    /\ res.ret # 0
    /\ MaskMode(res.type) # 0
    /\ \E i \in Matching(spec_arr, stem_arr, res.key, 0) :
          /\ i > res.ret
          /\ spec_arr[i].mode # 0
          /\ spec_arr[i].mode # MaskMode(res.type)

----------------------------------------------------------------------------
(* Properties of best_match *)

\* the probes of the last best_match that found a spec: 1 is the key,
\* p + 1 the p-th alias
Hits == {p \in 1..Len(res.hits) : res.hits[p] # 0}

HitSpec(p) == spec_arr[res.hits[p]]

\* C4: best_match returns a label whenever the key or an alias has a hit
Claim_C4 ==
    (res.op = "best_match" /\ Hits # {}) => res.ret # 0

\* what lookup_common finds for probe p of the last best_match, probed or not
ProbeHit(p) ==
    lookup_common(spec_arr, stem_arr,
                  IF p = 1 THEN res.key ELSE res.aliases[p - 1],
                  res.type, FALSE, "0").ret

Expected_C5 ==
    LET exact == {p \in Hits : ~HitSpec(p).hasMetaChars}
        longest == {p \in Hits :
                       \A q \in Hits : HitSpec(q).prefix_len <= HitSpec(p).prefix_len}
    IN  IF Hits = {} THEN 0
        ELSE IF exact # {} THEN res.hits[MinOf(exact)]
        ELSE IF 1 \notin Hits /\ HitSpec(MinOf(longest)).prefix_len = 0 THEN 0
        ELSE res.hits[MinOf(longest)]

----------------------------------------------------------------------------
(* Slash canonicalization *)

\* C6: lookup on a key gives what lookup on the key with its runs of
\* slashes collapsed gives, and the key the scan uses is that collapsed key
Claim_C6 ==
    res.op = "lookup" =>
        /\ CleanKey(res.key) = Collapse(res.key)
        /\ res.ret = lookup(spec_arr, stem_arr, Collapse(res.key), res.type, "0").ret

\* a key with a run of three slashes finds a spec
Witness_C6 ==
    /\ res.op = "lookup"
    /\ res.ret # 0
    /\ \E i \in 1..(Len(res.key) - 2) :
          res.key[i] = "/" /\ res.key[i + 1] = "/" /\ res.key[i + 2] = "/"
    /\ spec_arr[res.ret].regex_str = <<"/", "b">>

----------------------------------------------------------------------------
(* Duplicate detection *)

Compatible(m1, m2) == m1 = 0 \/ m2 = 0 \/ m1 = m2

\* two specs at different indices have the same pattern and compatible modes
HasDuplicate(specs) ==
    \E i \in 1..Len(specs), j \in 1..Len(specs) :
        /\ i # j
        /\ specs[i].regex_str = specs[j].regex_str
        /\ Compatible(specs[i].mode, specs[j].mode)

\* C7: the step of nodups_specs reports an error exactly when the store
\* holds such a pair, and leaves the spec store and the stems as they were
Claim_C7 ==
    [][(pc = "nodups" /\ pc' = "sort") =>
          /\ (res'.ret # 0) <=> HasDuplicate(spec_arr)
          /\ spec_arr' = spec_arr
          /\ stem_arr' = stem_arr]_vars

\* nodups_specs has reported two specs of one pattern, one for any mode and
\* one for regular files
Witness_C7 ==
    /\ res.op = "nodups"
    /\ res.ret # 0
    /\ Len(spec_arr) = 2
    /\ spec_arr[1].regex_str = spec_arr[2].regex_str
    /\ spec_arr[1].mode = 0
    /\ spec_arr[2].mode = S_IFREG

----------------------------------------------------------------------------
(* Closing *)

\* C8: once the handle is closed, every block was freed exactly once and
\* every region unmapped exactly once
Claim_C8 ==
    pc = "closed" =>
        /\ \A b \in 1..Len(heap) : heap[b].frees = 1
        /\ \A m \in 1..Len(maps) : maps[m].unmaps = 1

----------------------------------------------------------------------------
(* The verdict of cmp *)

\* C9: after a walk without disagreement, entries skipped or left over on
\* the first side only give Superset, on the second side only Subset, on
\* both sides Incomparable, on neither Equal
Claim_C9 ==
    (res.op = "cmp" /\ ~res.walk.incomp) =>
        LET extra1 == res.walk.skipped1 \/ res.walk.i < Len(spec_arr)
            extra2 == res.walk.skipped2 \/ res.walk.j < Len(other.spec_arr)
        IN  res.verdict = IF extra1 /\ extra2 THEN "SELABEL_INCOMPARABLE"
                          ELSE IF extra1 THEN "SELABEL_SUPERSET"
                          ELSE IF extra2 THEN "SELABEL_SUBSET"
                          ELSE "SELABEL_EQUAL"

----------------------------------------------------------------------------
(* The specfile resolver *)

\* open_file has run in the process_file under way or just returned
Opened == fs.suffix # "none" /\ (fs.pass = 1 \/ fs.returned)

Existing == {c \in 1..2 : fs.cands[c].exists}

\* C10: the first pass settles on the existing candidate of latest mtime,
\* on the .bin one when two are equally recent; the second pass on one of
\* earliest mtime; without candidate open_file fails with ENOENT
Claim_C10 ==
    Opened =>
        /\ Existing = {} =>
              fs.found = 0 /\ fs.returned /\ status = -1 /\ errno = "ENOENT"
        /\ (Existing # {} /\ ~fs.oldest) =>
              /\ fs.found \in Existing
              /\ \A c \in Existing :
                    /\ fs.cands[c].mtime <= fs.cands[fs.found].mtime
                    /\ fs.cands[c].mtime = fs.cands[fs.found].mtime => c <= fs.found
        /\ (Existing # {} /\ fs.oldest) =>
              /\ fs.found \in Existing
              /\ \A c \in Existing : fs.cands[fs.found].mtime <= fs.cands[c].mtime

\* the second pass has taken the plain file, older than the .bin file that
\* the first pass took
Witness_C10 ==
    /\ Opened
    /\ fs.oldest
    /\ Existing = {1, 2}
    /\ fs.cands[1].mtime < fs.cands[2].mtime
    /\ fs.found = 1
    /\ fs.cands[2].file # Unread

----------------------------------------------------------------------------
(* The overlays *)

\* process_file has just returned for the homedirs or the local overlay
OverlayReturned == fs.suffix \in {"homedirs", "local"} /\ fs.returned

\* C11: an overlay without candidate file lets init go on; an overlay with
\* a candidate whose load failed on both passes sends init to finish with
\* a status that closes the handle
Claim_C11 ==
    OverlayReturned =>
        /\ Existing = {} => pc \in {"local", "sort"}
        /\ (Existing # {} /\ status # 0) => pc = "finish"

----------------------------------------------------------------------------
(* Validation in the binary loader *)

\* the file the last pass of process_file has read
LastFile == fs.cands[fs.found].file

\* the last pass read, with validation on, a compiled file that passes all
\* format checks and holds a context other than <<none>> that is invalid
InvalidBinLoaded ==
    /\ fs.found # 0
    /\ opts.validating
    /\ LastFile.kind = "bin"
    /\ LastFile.tail = "ok"
    /\ FileStems(LastFile.entries) # <<>>
    /\ \E i \in 1..Len(LastFile.entries) :
          /\ LastFile.entries[i].ctx # NONE
          /\ selabel_validate(LastFile.entries[i].ctx) < 0

\* C12: such a file is rejected: process_file does not return success on
\* the pass that read it
Claim_C12 ==
    InvalidBinLoaded => ~(fs.returned /\ status = 0)

----------------------------------------------------------------------------
(* The <<none>> sentinel *)

\* the last lookup's scan stops at its matching spec of greatest index, and
\* that spec's context is <<none>>
NoneSelected ==
    /\ res.op = "lookup"
    /\ LET M == Matching(spec_arr, stem_arr, res.key, res.type)
       IN  /\ M # {}
           /\ ~Blocked(spec_arr, stem_arr, res.key, res.type, Max(M))
           /\ spec_arr[Max(M)].ctx_raw = NONE

\* C13: no lookup, partial_match or best_match returns a spec whose context
\* is <<none>>, no probe of best_match hits one, and a lookup whose scan
\* selects such a spec returns nothing
Claim_C13 ==
    /\ (res.op \in {"lookup", "partial_match", "best_match"} /\ res.ret # 0) =>
          spec_arr[res.ret].ctx_raw # NONE
    /\ \A p \in 1..Len(res.hits) :
          res.hits[p] # 0 => spec_arr[res.hits[p]].ctx_raw # NONE
    /\ NoneSelected => res.ret = 0

\* the spec selected has the context <<none>>, a spec below it with another
\* context matches the key too, and the lookup returned nothing
Witness_C13 ==
    /\ NoneSelected
    /\ res.ret = 0
    /\ \E i \in Matching(spec_arr, stem_arr, res.key, res.type) :
          spec_arr[i].ctx_raw # NONE

----------------------------------------------------------------------------
(* Regex errors *)

\* the specs that pass the filters for the key and whose regex fails
Failing(specs, stems, key, type) ==
    {i \in Considered(specs, stems, key, type) : Fails(specs[i], stems)}

\* C14: when the scan of a lookup meets a spec whose regex fails before any
\* matching spec, the lookup returns nothing, no matches counter changes,
\* and the specs below that one are left as they were, not even compiled
Claim_C14 ==
    [][(res'.op = "lookup" /\ nops' = nops + 1) =>
          LET F == Failing(spec_arr, stem_arr, res'.key, res'.type)
              M == Matching(spec_arr, stem_arr, res'.key, res'.type)
          IN  (F # {} /\ \A m \in M : m < Max(F)) =>
                 /\ res'.ret = 0
                 /\ Len(spec_arr') = Len(spec_arr)
                 /\ \A i \in 1..Len(spec_arr) :
                       spec_arr'[i].matches = spec_arr[i].matches
                 /\ \A i \in 1..(Max(F) - 1) : spec_arr'[i] = spec_arr[i]]_vars

\* the engine failed on a spec, a spec below it with a context of its own
\* matches the key, and that spec was neither compiled nor counted
Witness_C14 ==
    /\ res.op = "lookup"
    /\ res.ret = 0
    /\ LET F == Failing(spec_arr, stem_arr, res.key, res.type)
           M == Matching(spec_arr, stem_arr, res.key, res.type)
       IN  /\ F # {}
           /\ M # {}
           /\ Max(M) < Max(F)
           /\ EngineFails(RegexOf(spec_arr[Max(F)], stem_arr))
           /\ spec_arr[Max(M)].ctx_raw # NONE
           /\ ~spec_arr[Max(M)].regex
           /\ spec_arr[Max(M)].matches = 0

----------------------------------------------------------------------------
(* What a failed pass leaves behind *)

\* process_file has returned success from its second pass, on a file whose
\* entries were all loaded
SecondPassLoaded ==
    /\ fs.returned
    /\ status = 0
    /\ fs.pass = 1
    /\ fs.found # 0
    /\ ~InvalidBinLoaded

\* C15: then the spec store, the stem table and the mmap list hold what
\* they held when process_file was entered and what the file of the second
\* pass added, nothing of the first pass
Claim_C15 ==
    SecondPassLoaded =>
        /\ Len(spec_arr) = fs.nspec0 + Len(LastFile.entries)
        /\ Len(stem_arr) <= fs.nstem0 + Len(FileStems(LastFile.entries))
        /\ Len(mmap_areas) = fs.nareas0 + (IF LastFile.kind = "bin" THEN 1 ELSE 0)

====
